---------------------------- MODULE Spec2Model ----------------------------
(***************************************************************************)
(* State-machine model of the two programs of the repository:             *)
(*   src/versions/complex1.cpp  ("GLUT Room Editor", JSON scene graph)     *)
(*   src/main.cpp               ("Final Room Project", hard-coded scene)   *)
(*                                                                         *)
(* Numbers.  The programs use float fields that only ever change by fixed  *)
(* decimal steps.  They are modelled as integers counting a fixed unit:    *)
(*   complex1.cpp : every Node field, animSpeed and the camera in TENTHS   *)
(*                  (0.1f = 1, 1.0f = 10, 2.0f = 20)                        *)
(*   main.cpp     : x,y,z in thousandths, rx,ry,rz in whole degrees,       *)
(*                  sx,sy,sz in hundredths, cameraAngle in thousandths,    *)
(*                  cameraDist / cameraHeight in tenths.                   *)
(* Binary floating-point rounding is not modelled.                         *)
(*                                                                         *)
(* Pointers.  A Node* is the allocation number of the node (1, 2, ... in   *)
(* the order of `new Node()`), a Model* is the position of the payload in  *)
(* loadedModels, an Object* is the position in sceneObjects.  NULL is the  *)
(* null pointer and WILD a garbage pointer read out of bounds.             *)
(***************************************************************************)
EXTENDS Integers, Sequences, FiniteSets, TLC

\* ------------------------------------------------------------------ bounds
\* Largest number of elements in a generated scene.json forest.
MaxNodes == 3
\* Largest number of elements in the forests used when events are delivered.
MaxLoopNodes == 2
\* Number of idle() calls with the clock running that the environment delivers.
MaxTicks == 5
\* Number of transform / speed edit keys the environment delivers.
MaxEdits == 1
\* Number of camera steps (camera keys, room-spin ticks) the environment delivers.
MaxCams == 1
\* Number of display() calls the environment delivers.
MaxDraws == 1
\* Number of idle() calls with the clock running when every callback of
\* complex1.cpp is enabled.
MaxLoopTicks == 1
\* Number of GetModel calls made when the cache is exercised on its own.
MaxCalls == 3

\* ---------------------------------------------------------------- pointers
NULL == 0
WILD == -1

\* ------------------------------------------------- nlohmann::json elements
\* A decoded JSON object is a function from its keys to their values.
contains(j, key) == key \in DOMAIN j
value(j, key, default) == IF contains(j, key) THEN j[key] ELSE default

\* The elements of a JSON array: a number, or a value of another type (here
\* a string).  A pos / rot / scale field is a sequence of these.
Num(v) == [type |-> "number", v |-> v]
Text   == [type |-> "string", v |-> 0]
Triple(a, b, c) == << Num(a), Num(b), Num(c) >>

\* `float f = j[k]`, k counted from 0, throws json::type_error when j[k] is
\* not a number; operator[] of a non-const array pads a shorter array with
\* nulls up to k, and the conversion of the null then throws the same.
throwsAt(arr, k) == k + 1 > Len(arr) \/ arr[k + 1].type # "number"

\* The first of the three reads j[0], j[1], j[2] that throws; 3 when none does.
firstThrow(arr) ==
    IF \E k \in 0..2 : throwsAt(arr, k)
    THEN CHOOSE k \in 0..2 : throwsAt(arr, k) /\ \A i \in 0..(k - 1) : ~throwsAt(arr, i)
    ELSE 3

\* --------------------------------------------------- tinyobj::LoadObj world
\* What tinyobj::LoadObj decodes from a file that exists: the attribute arrays
\* and the face indices of its shapes (normal_index / texcoord_index are -1
\* where the face corner has none), and the diffuse texture name of the first
\* material as path components (empty: no material or no texture).
ObjFile(filename) ==
    [ vertices  |-> <<0, 0, 0, 1, 0, 0, 0, 1, 0>>,
      normals   |-> <<0, 0, 1>>,
      texcoords |-> <<0, 0, 1, 0, 0, 1>>,
      indices   |-> IF filename \in {"b.obj", "clock.obj"}
                    THEN << [vertex_index |-> 0, normal_index |-> 0,  texcoord_index |-> 0],
                            [vertex_index |-> 1, normal_index |-> -1, texcoord_index |-> -1],
                            [vertex_index |-> 2, normal_index |-> 0,  texcoord_index |-> 2] >>
                    ELSE << [vertex_index |-> 0, normal_index |-> 0, texcoord_index |-> 0],
                            [vertex_index |-> 1, normal_index |-> 0, texcoord_index |-> 1],
                            [vertex_index |-> 2, normal_index |-> 0, texcoord_index |-> 2] >>,
      diffuse_texname |-> IF filename \in {"tv.obj", "big_sofa.obj"}
                          THEN <<"textures", "wood.png">> ELSE <<>> ]

\* The flattening loops of GetModel: one position triple per face index, a
\* normal triple only for an index that has a normal.
RECURSIVE FlattenVertices(_, _)
FlattenVertices(attrib, indices) ==
    IF indices = <<>> THEN <<>>
    ELSE LET i == Head(indices).vertex_index
         IN  << attrib.vertices[3 * i + 1], attrib.vertices[3 * i + 2],
                attrib.vertices[3 * i + 3] >>
             \o FlattenVertices(attrib, Tail(indices))

RECURSIVE FlattenNormals(_, _)
FlattenNormals(attrib, indices) ==
    IF indices = <<>> THEN <<>>
    ELSE LET i == Head(indices).normal_index
         IN  (IF i >= 0
              THEN << attrib.normals[3 * i + 1], attrib.normals[3 * i + 2],
                      attrib.normals[3 * i + 3] >>
              ELSE <<>>)
             \o FlattenNormals(attrib, Tail(indices))

RECURSIVE FlattenTexcoords(_, _)
FlattenTexcoords(attrib, indices) ==
    IF indices = <<>> THEN <<>>
    ELSE LET i == Head(indices).texcoord_index
         IN  (IF i >= 0
              THEN << attrib.texcoords[2 * i + 1], attrib.texcoords[2 * i + 2] >>
              ELSE <<>>)
             \o FlattenTexcoords(attrib, Tail(indices))

\* Position (1-based) of the first payload named filename, 0 when there is none:
\* the lookup loop at the head of GetModel.
RECURSIVE FindModel(_, _, _)
FindModel(models, filename, i) ==
    IF i > Len(models) THEN NULL
    ELSE IF models[i].name = filename THEN i
    ELSE FindModel(models, filename, i + 1)

\* ------------------------------------------- complex1.cpp: GetModel
\* h is the heap and call history threaded through scene construction:
\*   h.nodes        every Node allocated so far, by allocation number
\*   h.flatList     the global flatList
\*   h.loadedModels the global loadedModels
\*   h.disk         the files under models/ that tinyobj::LoadObj can decode
\*   h.loadCalls    history: the file names tinyobj::LoadObj was invoked with
\*   h.getLog       history: every GetModel call with the pointer it returned
\* The result is h after the call; the returned pointer is the ret of the last
\* h.getLog entry.
\* LoadModel falling through after a failed load: the payload, never
\* filled, is pushed and returned.
LoadModelKeepsFailed(filename, h) ==
    LET called == [h EXCEPT !.loadCalls = Append(@, filename)]
        f == ObjFile(filename)
        m == IF filename \in h.disk
             THEN [ name     |-> filename,
                    vertices |-> FlattenVertices(f, f.indices),
                    normals  |-> FlattenNormals(f, f.indices),
                    loaded   |-> TRUE ]
             ELSE [ name |-> filename, vertices |-> <<>>, normals |-> <<>>,
                    loaded |-> FALSE ]
    IN  [called EXCEPT !.loadedModels = Append(@, m),
                       !.getLog = Append(@, [filename |-> filename,
                                             ret |-> Len(h.loadedModels) + 1])]

\* The cache-miss path: allocate, invoke tinyobj::LoadObj, delete and return
\* nullptr on failure, else flatten, push on loadedModels and return the payload.
LoadModel(filename, h) ==
    LET called == [h EXCEPT !.loadCalls = Append(@, filename)]
    IN  IF filename \notin h.disk
        THEN [called EXCEPT !.getLog = Append(@, [filename |-> filename, ret |-> NULL])]
        ELSE LET f == ObjFile(filename)
                 m == [ name     |-> filename,
                        vertices |-> FlattenVertices(f, f.indices),
                        normals  |-> FlattenNormals(f, f.indices),
                        loaded   |-> TRUE ]
             IN  [called EXCEPT !.loadedModels = Append(@, m),
                                !.getLog = Append(@, [filename |-> filename,
                                                      ret |-> Len(h.loadedModels) + 1])]

\* GetModel without the lookup loop.
GetModelNoLookup(filename, h) == LoadModel(filename, h)

\* GetModel remembering failures: an identifier that failed before returns
\* nullptr without another tinyobj::LoadObj.
GetModelNegativeCache(filename, h) ==
    LET hit == FindModel(h.loadedModels, filename, 1)
    IN  IF hit # NULL
        THEN [h EXCEPT !.getLog = Append(@, [filename |-> filename, ret |-> hit])]
        ELSE IF \E i \in DOMAIN h.getLog : h.getLog[i].filename = filename
        THEN [h EXCEPT !.getLog = Append(@, [filename |-> filename, ret |-> NULL])]
        ELSE LoadModel(filename, h)

GetModel(filename, h) ==
    LET hit == FindModel(h.loadedModels, filename, 1)
    IN  IF hit # NULL
        THEN [h EXCEPT !.getLog = Append(@, [filename |-> filename, ret |-> hit])]
        ELSE LoadModel(filename, h)

LastRet(h) == h.getLog[Len(h.getLog)].ret

\* ------------------------------------------- complex1.cpp: class Node
\* A freshly constructed Node: the member initialisers of the class.
Node ==
    [ name |-> "", type |-> "",
      x |-> 0, y |-> 0, z |-> 0,
      rx |-> 0, ry |-> 0, rz |-> 0,
      sx |-> 10, sy |-> 10, sz |-> 10,
      modelData |-> NULL, children |-> <<>>,
      isSelected |-> FALSE, isAnimated |-> FALSE, animSpeed |-> 0 ]


\* ------------------------------------------- complex1.cpp: parseNode
\* The Node is allocated on entry, so allocation numbers follow the order in
\* which parseNode is entered; it is pushed on flatList on exit, after its
\* children.  The pointer returned is the allocation number Len(h.nodes) + 1
\* taken before the call.
RECURSIVE parseNode(_, _)
RECURSIVE parseChildren(_, _, _)

\* The statement of parseNode that throws for this element: the read of a
\* malformed pos, rot or scale triple; "none" when every triple present is
\* three numbers.
nodeThrows(jNode) ==
    IF contains(jNode, "pos") /\ firstThrow(jNode["pos"]) < 3 THEN "pos"
    ELSE IF contains(jNode, "rot") /\ firstThrow(jNode["rot"]) < 3 THEN "rot"
    ELSE IF contains(jNode, "scale") /\ firstThrow(jNode["scale"]) < 3 THEN "scale"
    ELSE "none"

\* n->field = j[k], when control reaches it: reached is the number of
\* components of the triple read before a throw, old the value the field has.
assign(arr, k, reached, old) == IF reached > k THEN arr[k + 1].v ELSE old

\* name, type and the optional pos / rot / scale triples, assigned one
\* component after the other up to the statement that throws.
nodeTransform(jNode) ==
    LET t  == nodeThrows(jNode)
        kp == IF contains(jNode, "pos") THEN firstThrow(jNode["pos"]) ELSE 0
        kr == IF t # "pos" /\ contains(jNode, "rot")
              THEN firstThrow(jNode["rot"]) ELSE 0
        ks == IF t \notin {"pos", "rot"} /\ contains(jNode, "scale")
              THEN firstThrow(jNode["scale"]) ELSE 0
    IN  [Node EXCEPT !.name = value(jNode, "name", "Unnamed"),
                     !.type = value(jNode, "type", "group"),
                     !.x  = IF kp > 0 THEN assign(jNode["pos"], 0, kp, @) ELSE @,
                     !.y  = IF kp > 1 THEN assign(jNode["pos"], 1, kp, @) ELSE @,
                     !.z  = IF kp > 2 THEN assign(jNode["pos"], 2, kp, @) ELSE @,
                     !.rx = IF kr > 0 THEN assign(jNode["rot"], 0, kr, @) ELSE @,
                     !.ry = IF kr > 1 THEN assign(jNode["rot"], 1, kr, @) ELSE @,
                     !.rz = IF kr > 2 THEN assign(jNode["rot"], 2, kr, @) ELSE @,
                     !.sx = IF ks > 0 THEN assign(jNode["scale"], 0, ks, @) ELSE @,
                     !.sy = IF ks > 1 THEN assign(jNode["scale"], 1, ks, @) ELSE @,
                     !.sz = IF ks > 2 THEN assign(jNode["scale"], 2, ks, @) ELSE @]

\* The fields parseNode reads from the element itself: name, type, the
\* optional pos / rot / scale triples and, when none of them throws,
\* isAnimated and speed.
nodeFieldsSpeedZero(jNode) ==
    [nodeTransform(jNode) EXCEPT
        !.isAnimated = IF nodeThrows(jNode) = "none"
                       THEN value(jNode, "isAnimated", FALSE) ELSE @,
        !.animSpeed  = IF nodeThrows(jNode) = "none"
                       THEN value(jNode, "speed", 0) ELSE @]

nodeFields(jNode) ==
    [nodeTransform(jNode) EXCEPT
        !.isAnimated = IF nodeThrows(jNode) = "none"
                       THEN value(jNode, "isAnimated", FALSE) ELSE @,
        !.animSpeed  = IF nodeThrows(jNode) = "none"
                       THEN value(jNode, "speed", 10) ELSE @]

\* The mesh resolution of parseNode: only a "mesh" element with a model key
\* asks GetModel, and stores what it returns in modelData of node n.
resolveMeshAnyKind(jNode, n, h) ==
    IF contains(jNode, "model")
    THEN LET g == GetModel(jNode["model"], h)
         IN  [g EXCEPT !.nodes[n].modelData = LastRet(g)]
    ELSE h

resolveMesh(jNode, n, h) ==
    IF h.nodes[n].type = "mesh" /\ contains(jNode, "model")
    THEN LET g == GetModel(jNode["model"], h)
         IN  [g EXCEPT !.nodes[n].modelData = LastRet(g)]
    ELSE h

\* Whether parseNode(jNode) is left by an exception: one of its own triple
\* reads throws, or the parseNode of one of its children does.
RECURSIVE throws(_)
throws(jNode) ==
    \/ nodeThrows(jNode) # "none"
    \/ /\ contains(jNode, "children")
       /\ \E i \in DOMAIN jNode["children"] : throws(jNode["children"][i])

\* An exception leaves the Node allocated and filled as far as the throwing
\* statement, and skips everything after it: the mesh, the children and the
\* push on flatList.
parseNode(jNode, h) ==
    LET n  == Len(h.nodes) + 1
        h1 == [h EXCEPT !.nodes = Append(@, nodeFields(jNode))]
    IN  IF nodeThrows(jNode) # "none" THEN [h1 EXCEPT !.thrown = TRUE]
        ELSE IF ~contains(jNode, "children")
        THEN [resolveMesh(jNode, n, h1) EXCEPT !.flatList = Append(@, n)]
        ELSE [parseChildren(jNode["children"], n, resolveMesh(jNode, n, h1))
                 EXCEPT !.flatList = IF throws(jNode) THEN @ ELSE Append(@, n)]

\* The loop over jNode["children"]: parse each child and push it on the
\* parent's children; a child that throws ends the loop.
parseChildren(jChildren, parent, h) ==
    IF jChildren = <<>> THEN h
    ELSE IF throws(Head(jChildren)) THEN parseNode(Head(jChildren), h)
    ELSE LET childObj == Len(h.nodes) + 1
             hc == parseNode(Head(jChildren), h)
         IN  parseChildren(Tail(jChildren), parent,
                           [hc EXCEPT !.nodes[parent].children = Append(@, childObj)])

\* ------------------------------------------- complex1.cpp: LoadScene
\* A scene.json as LoadScene sees it: whether the ifstream opens, whether
\* json::parse accepts the text, and the decoded document.  h.thrown: a
\* json::type_error is propagating out of parseNode.
EmptyHeap(files) ==
    [ nodes |-> <<>>, flatList |-> <<>>, loadedModels |-> <<>>, sceneGraph |-> <<>>,
      disk |-> files, loadCalls |-> <<>>, getLog |-> <<>>, thrown |-> FALSE ]

\* The loop over data["root"]; a document without the key yields no item.
RECURSIVE parseRoots(_, _)
parseRoots(items, h) ==
    IF items = <<>> THEN h
    ELSE IF throws(Head(items)) THEN parseNode(Head(items), h)
    ELSE LET root == Len(h.nodes) + 1
             hr == parseNode(Head(items), h)
         IN  parseRoots(Tail(items), [hr EXCEPT !.sceneGraph = Append(@, root)])

\* The heap after LoadScene's loop, for a file that opened.
BuildScene(file, files) ==
    parseRoots(value(file.data, "root", <<>>), EmptyHeap(files))

\* ------------------------------------------------------ scene.json inputs
\* The element kinds the generated scenes are made of (values in tenths).
NameOnly   == [name |-> "only"]
MeshA      == [name |-> "chair", type |-> "mesh", model |-> "a.obj"]
MeshB      == [name |-> "fan", type |-> "mesh", model |-> "b.obj",
               isAnimated |-> TRUE, speed |-> 20, rot |-> Triple(30, 40, 50)]
GroupModel == [name |-> "room", type |-> "group", model |-> "a.obj",
               pos |-> Triple(10, 20, 30), scale |-> Triple(20, 20, 20)]
MeshNoFile == [type |-> "mesh"]
Spinner    == [name |-> "spin", isAnimated |-> TRUE]
\* Malformed triples: "pos": [1.0, 2.0] and "scale": [2.0, "wide", 2.0].
ShortPos   == [name |-> "short", pos |-> << Num(10), Num(20) >>]
TextScale  == [name |-> "text", type |-> "mesh", model |-> "a.obj",
               scale |-> << Num(20), Text, Num(20) >>]

Palette == {NameOnly, MeshA, MeshB, GroupModel, MeshNoFile, Spinner}
MalformedPalette == {NameOnly, MeshA, ShortPos, TextScale}
LoopPalette == {MeshA, MeshB, Spinner}

\* Every forest of exactly n elements over the element kinds of P; an element
\* without children has no "children" key.
RECURSIVE Forests(_, _)
RECURSIVE Trees(_, _)
Trees(P, n) ==
    { IF kids = <<>> THEN e ELSE e @@ [children |-> kids] :
        e \in P, kids \in Forests(P, n - 1) }
Forests(P, n) ==
    IF n = 0 THEN { <<>> }
    ELSE UNION { { <<t>> \o rest : t \in Trees(P, k), rest \in Forests(P, n - k) } :
                 k \in 1..n }

SceneFiles(P, max) ==
    { [is_open |-> FALSE, parses |-> FALSE, data |-> [root |-> <<>>]] }
    \cup { [is_open |-> TRUE, parses |-> FALSE, data |-> [root |-> <<>>]] }
    \cup { [is_open |-> TRUE, parses |-> TRUE,
            data |-> [camera |-> [pos |-> Triple(0, -50, 20)]]] }
    \cup { [is_open |-> TRUE, parses |-> TRUE, data |-> [root |-> f]] :
             f \in UNION { Forests(P, n) : n \in 0..max } }

ObjNames == {"a.obj", "b.obj"}

\* =========================================================== main.cpp
\* A freshly constructed Object: the member initialisers of the struct
\* (sx, sy, sz in hundredths).
Object ==
    [ name |-> "",
      x |-> 0, y |-> 0, z |-> 0,
      rx |-> 0, ry |-> 0, rz |-> 0,
      sx |-> 100, sy |-> 100, sz |-> 100,
      spinAnimation |-> FALSE, spinSpeed |-> 0,
      model |-> NULL ]

\* main.cpp: LoadTextureFromFile.  0 when stbi_load fails, else the texture
\* name glGenTextures hands out (h.textures counts the names handed out).
Main_LoadTextureFromFile(filename, h) ==
    IF filename \notin h.disk THEN 0 ELSE h.textures + 1

\* main.cpp: GetModel, the cache-miss path.  The texture is looked up under
\* the last path component of the first material's diffuse_texname.
Main_LoadModel(filename, h) ==
    LET called == [h EXCEPT !.loadCalls = Append(@, filename)]
    IN  IF filename \notin h.disk
        THEN [called EXCEPT !.getLog = Append(@, [filename |-> filename, ret |-> NULL])]
        ELSE LET f == ObjFile(filename)
                 rawName == f.diffuse_texname
                 textureID == IF rawName # <<>>
                              THEN Main_LoadTextureFromFile(rawName[Len(rawName)], h)
                              ELSE 0
                 m == [ name      |-> filename,
                        vertices  |-> FlattenVertices(f, f.indices),
                        normals   |-> FlattenNormals(f, f.indices),
                        texcoords |-> FlattenTexcoords(f, f.indices),
                        textureID |-> textureID,
                        loaded    |-> TRUE ]
             IN  [called EXCEPT !.loadedModels = Append(@, m),
                                !.textures = IF textureID # 0 THEN @ + 1 ELSE @,
                                !.getLog = Append(@, [filename |-> filename,
                                                      ret |-> Len(h.loadedModels) + 1])]

Main_GetModel(filename, h) ==
    LET hit == FindModel(h.loadedModels, filename, 1)
    IN  IF hit # NULL
        THEN [h EXCEPT !.getLog = Append(@, [filename |-> filename, ret |-> hit])]
        ELSE Main_LoadModel(filename, h)

\* main.cpp: AddObj.  a is the argument list as a record.
AddObj(a, h) ==
    LET g   == Main_GetModel(a.modelName, h)
        obj == [Object EXCEPT !.name = a.name, !.model = LastRet(g),
                              !.x = a.x, !.y = a.y, !.z = a.z,
                              !.rx = a.rx, !.ry = a.ry, !.rz = a.rz,
                              !.sx = a.sx, !.sy = a.sy, !.sz = a.sz,
                              !.spinAnimation = a.isAnimated,
                              !.spinSpeed = IF a.isAnimated THEN 1 ELSE 0]
    IN  [g EXCEPT !.sceneObjects = Append(@, obj)]

\* One AddObj call of main.cpp's LoadScene: rotation 0, scale 1.
Arg(name, px, py, pz, isAnimated) ==
    [ name |-> name, modelName |-> name \o ".obj", x |-> px, y |-> py, z |-> pz,
      rx |-> 0, ry |-> 0, rz |-> 0, sx |-> 100, sy |-> 100, sz |-> 100,
      isAnimated |-> isAnimated ]

\* The eleven AddObj calls of main.cpp's LoadScene, positions in thousandths.
Main_SceneData ==
    << Arg("big_sofa", -1854, 30, 198, FALSE),
       Arg("bookshelf", -2053, -1771, 30, FALSE),
       Arg("cactus", -155, -131, 503, FALSE),
       Arg("carpet", -39, 244, 46, FALSE),
       Arg("clock", -2262, -1811, 2082, TRUE),
       Arg("lamp", -1829, 1863, 88, FALSE),
       Arg("shelf", -2181, 72, 1499, FALSE),
       Arg("sofa", -77, 1839, 336, FALSE),
       Arg("table", -285, -104, 48, FALSE),
       Arg("tv", 2026, 132, 720, FALSE),
       Arg("walls", -178, 2213, 1590, FALSE) >>

RECURSIVE Main_AddAll(_, _)
Main_AddAll(args, h) ==
    IF args = <<>> THEN h ELSE Main_AddAll(Tail(args), AddObj(Head(args), h))

Main_EmptyHeap(files) ==
    [ sceneObjects |-> <<>>, loadedModels |-> <<>>, textures |-> 0,
      disk |-> files, loadCalls |-> <<>>, getLog |-> <<>> ]

\* The heap after the AddObj calls of main.cpp's LoadScene.
Main_BuildScene(files) == Main_AddAll(Main_SceneData, Main_EmptyHeap(files))

\* The files main.cpp asks for, and the ones that may be missing from a disk.
Main_Files ==
    { Main_SceneData[i].modelName : i \in 1..Len(Main_SceneData) } \cup {"wood.png"}
Main_Disks == { Main_Files \ gone : gone \in SUBSET {"big_sofa.obj", "clock.obj", "wood.png"} }

\* ================================================================ state
VARIABLES
    \* the environment: which program runs, where main() is, the files on disk,
    \* scene.json, and how many events of each kind will be delivered
    program, pc, disk, sceneFile, lim,
    \* complex1.cpp: the heap of Nodes and the globals
    nodes, sceneGraph, flatList, loadedModels, selectedNode, selectionIndex,
    clockRunning, camX, camY, camZ,
    \* main.cpp: the globals (sceneObjects holds the Objects themselves)
    sceneObjects, Main_loadedModels, selectedObject, Main_selectionIndex,
    cameraAngle, cameraHeight, cameraDist, isClockAnimating, isRoomSpinning,
    \* history: LoadObj invocations, GetModel calls and results, events
    \* delivered (ticks: idle() calls with the animation running, pausedIdle:
    \* idle() was called with it paused), nodes the user edited, the last
    \* cursors TAB produced, and the OpenGL calls of the last display()
    loadCalls, getLog, count, edited, tabTrail, glCalls

env      == <<program, disk, sceneFile, lim>>
c1vars   == <<nodes, sceneGraph, flatList, loadedModels, selectedNode, selectionIndex,
              clockRunning, camX, camY, camZ>>
mainvars == <<sceneObjects, Main_loadedModels, selectedObject, Main_selectionIndex,
              cameraAngle, cameraHeight, cameraDist, isClockAnimating, isRoomSpinning>>
history  == <<loadCalls, getLog, count, edited, tabTrail, glCalls>>
vars     == <<pc, env, c1vars, mainvars, history>>

\* The globals as their definitions initialise them, before main() runs.
Globals ==
    /\ pc = "start"
    /\ nodes = <<>> /\ sceneGraph = <<>> /\ flatList = <<>> /\ loadedModels = <<>>
    /\ selectedNode = NULL /\ selectionIndex = 0 /\ clockRunning = TRUE
    /\ camX = 0 /\ camY = -50 /\ camZ = 20
    /\ sceneObjects = <<>> /\ Main_loadedModels = <<>>
    /\ selectedObject = NULL /\ Main_selectionIndex = 0
    /\ cameraAngle = 0 /\ cameraHeight = 50 /\ cameraDist = 150
    /\ isClockAnimating = TRUE /\ isRoomSpinning = FALSE
    /\ loadCalls = <<>> /\ getLog = <<>>
    /\ count = [ticks |-> 0, edits |-> 0, cams |-> 0, draws |-> 0, pausedIdle |-> FALSE]
    /\ edited = {} /\ tabTrail = <<>> /\ glCalls = <<>>

NoSceneFile == [is_open |-> FALSE, parses |-> FALSE, data |-> [root |-> <<>>]]

\* Either program, started on one of the scene files and disks given, with
\* the event budget given.
InitWith(files, limits) ==
    /\ Globals
    /\ lim = limits
    /\ \/ program = "complex1" /\ sceneFile \in files /\ disk \in SUBSET ObjNames
       \/ program = "main" /\ sceneFile = NoSceneFile /\ disk \in Main_Disks

\* ------------------------------------------- complex1.cpp: LoadScene
\* A file that does not open returns early; an exception of json::parse or
\* of parseNode is not caught anywhere, so the program is terminated with
\* the scene as far as it was built; otherwise the roots are parsed and
\* flatList[0], when there is one, becomes the selected node.
LoadScene ==
    /\ program = "complex1" /\ pc = "start"
    /\ IF ~sceneFile.is_open
       THEN /\ pc' = "loop"
            /\ UNCHANGED <<c1vars, loadCalls, getLog, tabTrail>>
       ELSE IF ~sceneFile.parses
       THEN /\ pc' = "aborted"
            /\ UNCHANGED <<c1vars, loadCalls, getLog, tabTrail>>
       ELSE LET h == BuildScene(sceneFile, disk)
            IN  /\ pc' = IF h.thrown THEN "aborted" ELSE "loop"
                /\ sceneGraph' = h.sceneGraph
                /\ flatList' = h.flatList
                /\ loadedModels' = h.loadedModels
                /\ loadCalls' = h.loadCalls
                /\ getLog' = h.getLog
                /\ IF h.flatList # <<>> /\ ~h.thrown
                   THEN /\ selectedNode' = h.flatList[1]
                        /\ nodes' = [h.nodes EXCEPT ![h.flatList[1]].isSelected = TRUE]
                        /\ tabTrail' = << [index |-> 0, node |-> h.flatList[1]] >>
                   ELSE /\ selectedNode' = selectedNode
                        /\ nodes' = h.nodes
                        /\ tabTrail' = tabTrail
                /\ UNCHANGED <<selectionIndex, clockRunning, camX, camY, camZ>>
    /\ UNCHANGED <<env, mainvars, count, edited, glCalls>>

\* ------------------------------------------- main.cpp: LoadScene
Main_LoadScene ==
    /\ program = "main" /\ pc = "start"
    /\ LET h == Main_BuildScene(disk)
       IN  /\ pc' = "loop"
           /\ sceneObjects' = h.sceneObjects
           /\ Main_loadedModels' = h.loadedModels
           /\ loadCalls' = h.loadCalls
           /\ getLog' = h.getLog
           /\ IF h.sceneObjects # <<>>
              THEN /\ selectedObject' = 1
                   /\ tabTrail' = << [index |-> 0, node |-> 1] >>
              ELSE /\ selectedObject' = selectedObject
                   /\ tabTrail' = tabTrail
    /\ UNCHANGED <<env, c1vars, Main_selectionIndex, cameraAngle, cameraHeight, cameraDist,
                   isClockAnimating, isRoomSpinning, count, edited, glCalls>>

\* =================================================== the GLUT event loop
\* glutMainLoop delivers keyboard, special-key, idle and display callbacks in
\* any order.  glutPostRedisplay only asks GLUT for a later display(), which
\* GLUT also calls on its own when the window is damaged, so display() is
\* enabled whenever the loop runs.

\* ------------------------------------------- complex1.cpp: keyboard
speed    == 1
rotSpeed == 20

Keys == { "ESC", "TAB", "/", "[", "]", "q", "a", "w", "s", "e", "d",
          "r", "f", "t", "g", "y", "h", "other" }

\* The field a key of the switch changes, and by how much (0.1f is 1).
KeyEdit(key) ==
    CASE key = "[" -> [field |-> "animSpeed", delta |-> -1]
      [] key = "]" -> [field |-> "animSpeed", delta |-> 1]
      [] key = "q" -> [field |-> "x", delta |-> speed]
      [] key = "a" -> [field |-> "x", delta |-> -speed]
      [] key = "w" -> [field |-> "y", delta |-> speed]
      [] key = "s" -> [field |-> "y", delta |-> -speed]
      [] key = "e" -> [field |-> "z", delta |-> speed]
      [] key = "d" -> [field |-> "z", delta |-> -speed]
      [] key = "r" -> [field |-> "rx", delta |-> rotSpeed]
      [] key = "f" -> [field |-> "rx", delta |-> -rotSpeed]
      [] key = "t" -> [field |-> "ry", delta |-> rotSpeed]
      [] key = "g" -> [field |-> "ry", delta |-> -rotSpeed]
      [] key = "y" -> [field |-> "rz", delta |-> rotSpeed]
      [] key = "h" -> [field |-> "rz", delta |-> -rotSpeed]

EditKeys == Keys \ {"ESC", "TAB", "/", "other"}

\* selectionIndex after case 9 of the switch: incremented, reset to 0 when
\* it reaches flatList.size().
nextIndexEarlyWrap(index, size) == IF index + 1 >= size - 1 THEN 0 ELSE index + 1

nextIndex(index, size) == IF index + 1 >= size THEN 0 ELSE index + 1

\* The last cursors TAB produced, as many as the list is long plus one.
Trail(trail, entry, size) ==
    LET t == Append(trail, entry)
    IN  IF Len(t) > size + 1 THEN Tail(t) ELSE t

\* case 9 (TAB) without clearing the flag of the node selected before.
selectNextKeepsFlag ==
    LET index == nextIndex(selectionIndex, Len(flatList))
    IN  IF flatList = <<>> \/ selectedNode = WILD
        THEN /\ \/ pc' = "crashed" /\ UNCHANGED <<selectedNode, selectionIndex>>
                \/ pc' = pc /\ selectedNode' = WILD /\ selectionIndex' = index
             /\ UNCHANGED <<nodes, tabTrail>>
        ELSE /\ selectionIndex' = index
             /\ selectedNode' = flatList[index + 1]
             /\ nodes' = [nodes EXCEPT ![flatList[index + 1]].isSelected = TRUE]
             /\ tabTrail' = Trail(tabTrail, [index |-> index, node |-> flatList[index + 1]],
                                  Len(flatList))
             /\ pc' = pc

\* case 9 (TAB).  On an empty flatList the read flatList[selectionIndex] is
\* out of bounds and the store through what it yields is undefined: the
\* process is killed, or it goes on with a garbage selectedNode.
selectNext ==
    LET index == nextIndex(selectionIndex, Len(flatList))
    IN  IF flatList = <<>> \/ selectedNode = WILD
        THEN /\ \/ pc' = "crashed" /\ UNCHANGED <<selectedNode, selectionIndex>>
                \/ pc' = pc /\ selectedNode' = WILD /\ selectionIndex' = index
             /\ UNCHANGED <<nodes, tabTrail>>
        ELSE /\ selectionIndex' = index
             /\ selectedNode' = flatList[index + 1]
             /\ nodes' = [ (IF selectedNode # NULL
                            THEN [nodes EXCEPT ![selectedNode].isSelected = FALSE]
                            ELSE nodes)
                           EXCEPT ![flatList[index + 1]].isSelected = TRUE ]
             /\ tabTrail' = Trail(tabTrail, [index |-> index, node |-> flatList[index + 1]],
                                  Len(flatList))
             /\ pc' = pc

\* The transform and speed keys storing through flatList[0] instead of
\* selectedNode.
editSelectedHead(key) ==
    IF selectedNode = NULL
    THEN UNCHANGED <<pc, nodes, count, edited>>
    ELSE IF selectedNode = WILD
    THEN /\ pc' \in {pc, "crashed"}
         /\ UNCHANGED <<nodes, count, edited>>
    ELSE /\ count.edits < lim.edits
         /\ nodes' = [nodes EXCEPT ![flatList[1]][KeyEdit(key).field] =
                                        @ + KeyEdit(key).delta]
         /\ count' = [count EXCEPT !.edits = @ + 1]
         /\ edited' = edited \cup {flatList[1]}
         /\ pc' = pc

\* The transform and speed keys: nothing without a selected node, a store
\* through the pointer otherwise (undefined through a garbage pointer).
editSelected(key) ==
    IF selectedNode = NULL
    THEN UNCHANGED <<pc, nodes, count, edited>>
    ELSE IF selectedNode = WILD
    THEN /\ pc' \in {pc, "crashed"}
         /\ UNCHANGED <<nodes, count, edited>>
    ELSE /\ count.edits < lim.edits
         /\ nodes' = [nodes EXCEPT ![selectedNode][KeyEdit(key).field] =
                                        @ + KeyEdit(key).delta]
         /\ count' = [count EXCEPT !.edits = @ + 1]
         /\ edited' = edited \cup {selectedNode}
         /\ pc' = pc

keyboard(key) ==
    /\ program = "complex1" /\ pc = "loop"
    /\ IF key = "ESC"
       THEN /\ pc' = "exited"
            /\ UNCHANGED <<c1vars, count, edited, tabTrail>>
       ELSE IF key = "TAB"
       THEN /\ selectNext
            /\ UNCHANGED <<sceneGraph, flatList, loadedModels, clockRunning,
                           camX, camY, camZ, count, edited>>
       ELSE IF key = "/"
       THEN /\ clockRunning' = ~clockRunning
            /\ UNCHANGED <<pc, nodes, sceneGraph, flatList, loadedModels, selectedNode,
                           selectionIndex, camX, camY, camZ, count, edited, tabTrail>>
       ELSE IF key \in EditKeys
       THEN /\ editSelected(key)
            /\ UNCHANGED <<sceneGraph, flatList, loadedModels, selectedNode,
                           selectionIndex, clockRunning, camX, camY, camZ, tabTrail>>
       ELSE UNCHANGED <<pc, c1vars, count, edited, tabTrail>>
    /\ UNCHANGED <<env, mainvars, loadCalls, getLog, glCalls>>

\* ------------------------------------------- complex1.cpp: specialKeys
camSpeed == 5

SpecialKeys == { "UP", "DOWN", "LEFT", "RIGHT", "PAGE_UP", "PAGE_DOWN", "other" }

specialKeys(key) ==
    /\ program = "complex1" /\ pc = "loop"
    /\ IF key = "other"
       THEN UNCHANGED <<camX, camY, camZ, count>>
       ELSE /\ count.cams < lim.cams
            /\ count' = [count EXCEPT !.cams = @ + 1]
            /\ camY' = IF key = "UP" THEN camY + camSpeed
                       ELSE IF key = "DOWN" THEN camY - camSpeed ELSE camY
            /\ camX' = IF key = "LEFT" THEN camX - camSpeed
                       ELSE IF key = "RIGHT" THEN camX + camSpeed ELSE camX
            /\ camZ' = IF key = "PAGE_UP" THEN camZ + camSpeed
                       ELSE IF key = "PAGE_DOWN" THEN camZ - camSpeed ELSE camZ
    /\ UNCHANGED <<pc, env, nodes, sceneGraph, flatList, loadedModels, selectedNode,
                   selectionIndex, clockRunning, mainvars, loadCalls, getLog, edited,
                   tabTrail, glCalls>>

\* ------------------------------------------- complex1.cpp: idle
\* The loop over flatList: an animated node's rz grows by its animSpeed.
RECURSIVE spinAllWhilePaused(_, _, _)
spinAllWhilePaused(list, heap, running) ==
    IF list = <<>> THEN heap
    ELSE spinAllWhilePaused(Tail(list),
                 IF heap[Head(list)].isAnimated
                 THEN [heap EXCEPT ![Head(list)].rz = @ + heap[Head(list)].animSpeed]
                 ELSE heap, running)

RECURSIVE spinAllOnX(_, _, _)
spinAllOnX(list, heap, running) ==
    IF list = <<>> \/ ~running THEN heap
    ELSE spinAllOnX(Tail(list),
                 IF heap[Head(list)].isAnimated
                 THEN [heap EXCEPT ![Head(list)].rx = @ + heap[Head(list)].animSpeed]
                 ELSE heap, running)

RECURSIVE spinAll(_, _, _)
spinAll(list, heap, running) ==
    IF list = <<>> \/ ~running THEN heap
    ELSE spinAll(Tail(list),
                 IF heap[Head(list)].isAnimated
                 THEN [heap EXCEPT ![Head(list)].rz = @ + heap[Head(list)].animSpeed]
                 ELSE heap, running)

\* idle() iterating with the global selectedNode as its loop variable.
idleMovesSelection ==
    /\ program = "complex1" /\ pc = "loop"
    /\ clockRunning => count.ticks < lim.ticks
    /\ nodes' = spinAll(flatList, nodes, clockRunning)
    /\ selectedNode' = IF clockRunning /\ flatList # <<>>
                       THEN flatList[Len(flatList)] ELSE selectedNode
    /\ count' = IF clockRunning THEN [count EXCEPT !.ticks = @ + 1]
                ELSE [count EXCEPT !.pausedIdle = TRUE]
    /\ UNCHANGED <<pc, env, sceneGraph, flatList, loadedModels,
                   selectionIndex, clockRunning, camX, camY, camZ, mainvars,
                   loadCalls, getLog, edited, tabTrail, glCalls>>

idle ==
    /\ program = "complex1" /\ pc = "loop"
    /\ clockRunning => count.ticks < lim.ticks
    /\ nodes' = spinAll(flatList, nodes, clockRunning)
    /\ count' = IF clockRunning THEN [count EXCEPT !.ticks = @ + 1]
                ELSE [count EXCEPT !.pausedIdle = TRUE]
    /\ UNCHANGED <<pc, env, sceneGraph, flatList, loadedModels, selectedNode,
                   selectionIndex, clockRunning, camX, camY, camZ, mainvars,
                   loadCalls, getLog, edited, tabTrail, glCalls>>

\* ------------------------------------------- main.cpp: keyboard
Main_speed  == 200
Main_rSpeed == 5
Main_scaleStep == 5

Main_Keys == { "ESC", "TAB", " ", "ENTER", "w", "s", "a", "d", "q", "e",
               "r", "f", "t", "g", "y", "h", "u", "j", "other" }

\* The fields a key of the switch changes, and by how much.
Main_KeyEdit(key) ==
    CASE key = "w" -> [fields |-> {"y"}, delta |-> Main_speed]
      [] key = "s" -> [fields |-> {"y"}, delta |-> -Main_speed]
      [] key = "a" -> [fields |-> {"x"}, delta |-> -Main_speed]
      [] key = "d" -> [fields |-> {"x"}, delta |-> Main_speed]
      [] key = "q" -> [fields |-> {"z"}, delta |-> Main_speed]
      [] key = "e" -> [fields |-> {"z"}, delta |-> -Main_speed]
      [] key = "r" -> [fields |-> {"rx"}, delta |-> Main_rSpeed]
      [] key = "f" -> [fields |-> {"rx"}, delta |-> -Main_rSpeed]
      [] key = "t" -> [fields |-> {"ry"}, delta |-> Main_rSpeed]
      [] key = "g" -> [fields |-> {"ry"}, delta |-> -Main_rSpeed]
      [] key = "y" -> [fields |-> {"rz"}, delta |-> Main_rSpeed]
      [] key = "h" -> [fields |-> {"rz"}, delta |-> -Main_rSpeed]
      [] key = "u" -> [fields |-> {"sx", "sy", "sz"}, delta |-> Main_scaleStep]
      [] key = "j" -> [fields |-> {"sx", "sy", "sz"}, delta |-> -Main_scaleStep]

Main_EditKeys == Main_Keys \ {"ESC", "TAB", " ", "ENTER", "other"}

\* selectionIndex after case 9 of the switch.
Main_nextIndex(index, size) == (index + 1) % size

Main_keyboard(key) ==
    /\ program = "main" /\ pc = "loop"
    /\ IF selectedObject = NULL
       THEN UNCHANGED <<pc, mainvars, count, edited, tabTrail>>
       ELSE IF key = "ESC"
       THEN /\ pc' = "exited"
            /\ UNCHANGED <<mainvars, count, edited, tabTrail>>
       ELSE IF key = "TAB"
       THEN LET index == Main_nextIndex(Main_selectionIndex, Len(sceneObjects))
            IN  /\ Main_selectionIndex' = index
                /\ selectedObject' = index + 1
                /\ tabTrail' = Trail(tabTrail, [index |-> index, node |-> index + 1],
                                     Len(sceneObjects))
                /\ UNCHANGED <<pc, sceneObjects, Main_loadedModels, cameraAngle,
                               cameraHeight, cameraDist, isClockAnimating,
                               isRoomSpinning, count, edited>>
       ELSE IF key = " "
       THEN /\ isClockAnimating' = ~isClockAnimating
            /\ UNCHANGED <<pc, sceneObjects, Main_loadedModels, selectedObject,
                           Main_selectionIndex, cameraAngle, cameraHeight, cameraDist,
                           isRoomSpinning, count, edited, tabTrail>>
       ELSE IF key = "ENTER"
       THEN /\ isRoomSpinning' = ~isRoomSpinning
            /\ UNCHANGED <<pc, sceneObjects, Main_loadedModels, selectedObject,
                           Main_selectionIndex, cameraAngle, cameraHeight, cameraDist,
                           isClockAnimating, count, edited, tabTrail>>
       ELSE IF key \in Main_EditKeys
       THEN /\ count.edits < lim.edits
            /\ sceneObjects' =
                  [sceneObjects EXCEPT ![selectedObject] =
                      [f \in DOMAIN @ |->
                          IF f \in Main_KeyEdit(key).fields
                          THEN @[f] + Main_KeyEdit(key).delta ELSE @[f]]]
            /\ count' = [count EXCEPT !.edits = @ + 1]
            /\ edited' = edited \cup {selectedObject}
            /\ UNCHANGED <<pc, Main_loadedModels, selectedObject, Main_selectionIndex,
                           cameraAngle, cameraHeight, cameraDist, isClockAnimating,
                           isRoomSpinning, tabTrail>>
       ELSE UNCHANGED <<pc, mainvars, count, edited, tabTrail>>
    /\ UNCHANGED <<env, c1vars, loadCalls, getLog, glCalls>>

\* ------------------------------------------- main.cpp: specialKeys
Main_angleStep == 100
Main_distStep  == 5

Main_SpecialKeys == { "LEFT", "RIGHT", "UP", "DOWN", "other" }

Main_specialKeys(key) ==
    /\ program = "main" /\ pc = "loop"
    /\ IF key = "other"
       THEN UNCHANGED <<cameraAngle, cameraDist, count>>
       ELSE /\ count.cams < lim.cams
            /\ count' = [count EXCEPT !.cams = @ + 1]
            /\ cameraAngle' = IF key = "LEFT" THEN cameraAngle - Main_angleStep
                              ELSE IF key = "RIGHT" THEN cameraAngle + Main_angleStep
                              ELSE cameraAngle
            /\ cameraDist' = IF key = "UP" THEN cameraDist - Main_distStep
                             ELSE IF key = "DOWN" THEN cameraDist + Main_distStep
                             ELSE cameraDist
    /\ UNCHANGED <<pc, env, c1vars, sceneObjects, Main_loadedModels, selectedObject,
                   Main_selectionIndex, cameraHeight, isClockAnimating, isRoomSpinning,
                   loadCalls, getLog, edited, tabTrail, glCalls>>

\* ------------------------------------------- main.cpp: idle
Main_spinStep == 5

\* The loop over sceneObjects: a spinning object's rx shrinks by spinSpeed.
Main_spinAll(objects, animating) ==
    [ i \in DOMAIN objects |->
        IF animating /\ objects[i].spinAnimation
        THEN [objects[i] EXCEPT !.rx = @ - objects[i].spinSpeed]
        ELSE objects[i] ]

Main_idle ==
    /\ program = "main" /\ pc = "loop"
    /\ isClockAnimating => count.ticks < lim.ticks
    /\ isRoomSpinning => count.cams < lim.cams
    /\ sceneObjects' = Main_spinAll(sceneObjects, isClockAnimating)
    /\ cameraAngle' = IF isRoomSpinning THEN cameraAngle + Main_spinStep ELSE cameraAngle
    /\ count' = [count EXCEPT !.ticks = IF isClockAnimating THEN @ + 1 ELSE @,
                              !.cams = IF isRoomSpinning THEN @ + 1 ELSE @,
                              !.pausedIdle = IF isClockAnimating THEN @ ELSE TRUE]
    /\ UNCHANGED <<pc, env, c1vars, Main_loadedModels, selectedObject,
                   Main_selectionIndex, cameraHeight, cameraDist, isClockAnimating,
                   isRoomSpinning, loadCalls, getLog, edited, tabTrail, glCalls>>

\* =============================================================== drawing
\* One OpenGL / GLUT call: its name, its arguments, and the node or object
\* it is issued for (NULL for a call of display() itself).
call(op, node, args) == [op |-> op, node |-> node, args |-> args]

\* v[k] of a std::vector<float>; a read past the end yields garbage.
at(v, k) == IF k + 1 \in DOMAIN v THEN v[k + 1] ELSE WILD

\* The loop over i < vertices.size() / 3: a normal when the payload has any,
\* then the position.
RECURSIVE emitTriangles(_, _, _)
emitTriangles(m, n, i) ==
    IF i >= Len(m.vertices) \div 3 THEN <<>>
    ELSE (IF m.normals # <<>>
          THEN << call("glNormal3f", n, << at(m.normals, 3 * i), at(m.normals, 3 * i + 1),
                                           at(m.normals, 3 * i + 2) >>) >>
          ELSE <<>>)
         \o << call("glVertex3f", n, << at(m.vertices, 3 * i), at(m.vertices, 3 * i + 1),
                                        at(m.vertices, 3 * i + 2) >>) >>
         \o emitTriangles(m, n, i + 1)

\* ------------------------------------------- complex1.cpp: Node::DrawLegacy
\* The transform calls between glPushMatrix and the geometry.
localTransformXYZ(n) ==
    << call("glTranslatef", n, <<nodes[n].x, nodes[n].y, nodes[n].z>>),
       call("glRotatef", n, <<nodes[n].rx, 1, 0, 0>>),
       call("glRotatef", n, <<nodes[n].ry, 0, 1, 0>>),
       call("glRotatef", n, <<nodes[n].rz, 0, 0, 1>>),
       call("glScalef", n, <<nodes[n].sx, nodes[n].sy, nodes[n].sz>>) >>

localTransform(n) ==
    << call("glTranslatef", n, <<nodes[n].x, nodes[n].y, nodes[n].z>>),
       call("glRotatef", n, <<nodes[n].rz, 0, 0, 1>>),
       call("glRotatef", n, <<nodes[n].ry, 0, 1, 0>>),
       call("glRotatef", n, <<nodes[n].rx, 1, 0, 0>>),
       call("glScalef", n, <<nodes[n].sx, nodes[n].sy, nodes[n].sz>>) >>

\* The geometry of node n: nothing without a loaded payload.
geometry(n) ==
    LET m == nodes[n].modelData
    IN  IF m # NULL /\ loadedModels[m].loaded
        THEN << call("glColor3f", n, IF nodes[n].isSelected THEN <<10, 10, 0>>
                                     ELSE <<10, 10, 10>>),
                call("glBegin", n, <<"GL_TRIANGLES">>) >>
             \o emitTriangles(loadedModels[m], n, 0)
             \o << call("glEnd", n, <<>>) >>
        ELSE <<>>

RECURSIVE DrawLegacy(_)
RECURSIVE DrawEach(_)

\* DrawLegacy returning without glPopMatrix.
DrawLegacyNoPop(n) ==
    << call("glPushMatrix", n, <<>>) >>
    \o localTransform(n)
    \o geometry(n)
    \o DrawEach(nodes[n].children)

\* DrawLegacy returning early for a node without a loaded payload, before
\* it has drawn the children.
DrawLegacySkipsEmpty(n) ==
    << call("glPushMatrix", n, <<>>) >>
    \o localTransform(n)
    \o geometry(n)
    \o (IF geometry(n) = <<>> THEN <<>> ELSE DrawEach(nodes[n].children))
    \o << call("glPopMatrix", n, <<>>) >>

DrawLegacy(n) ==
    << call("glPushMatrix", n, <<>>) >>
    \o localTransform(n)
    \o geometry(n)
    \o DrawEach(nodes[n].children)
    \o << call("glPopMatrix", n, <<>>) >>

DrawEach(ptrs) ==
    IF ptrs = <<>> THEN <<>> ELSE DrawLegacy(Head(ptrs)) \o DrawEach(Tail(ptrs))

\* ------------------------------------------- complex1.cpp: display
\* The floor grid: four vertices for every i from -10 to 10.
RECURSIVE grid(_)
grid(i) ==
    IF i > 10 THEN <<>>
    ELSE << call("glVertex3f", NULL, <<i, -10, 0>>), call("glVertex3f", NULL, <<i, 10, 0>>),
            call("glVertex3f", NULL, <<-10, i, 0>>), call("glVertex3f", NULL, <<10, i, 0>>) >>
         \o grid(i + 1)

display ==
    /\ program = "complex1" /\ pc = "loop"
    /\ count.draws < lim.draws
    /\ count' = [count EXCEPT !.draws = @ + 1]
    /\ glCalls' =
          << call("glClear", NULL, <<>>),
             call("glLoadIdentity", NULL, <<>>),
             call("gluLookAt", NULL, <<camX, camY, camZ, 0, 0, 0, 0, 0, 1>>),
             call("glDisable", NULL, <<"GL_LIGHTING">>),
             call("glBegin", NULL, <<"GL_LINES">>),
             call("glColor3f", NULL, <<5, 5, 5>>) >>
          \o grid(-10)
          \o << call("glEnd", NULL, <<>>),
                call("glEnable", NULL, <<"GL_LIGHTING">>) >>
          \o DrawEach(sceneGraph)
          \o << call("glutSwapBuffers", NULL, <<>>) >>
    /\ UNCHANGED <<pc, env, c1vars, mainvars, loadCalls, getLog, edited, tabTrail>>

\* ------------------------------------------- main.cpp: display
\* The five light calls issued for the object named "tv" or "lamp".
lightCalls(o, light, height) ==
    << call("glLightfv", NULL, <<light, "GL_DIFFUSE">>),
       call("glLightfv", NULL, <<light, "GL_POSITION", sceneObjects[o].x, sceneObjects[o].y,
                                 sceneObjects[o].z + height>>),
       call("glLightf", NULL, <<light, "GL_CONSTANT_ATTENUATION">>),
       call("glLightf", NULL, <<light, "GL_LINEAR_ATTENUATION">>),
       call("glLightf", NULL, <<light, "GL_QUADRATIC_ATTENUATION">>) >>

RECURSIVE dynamicLights(_)
dynamicLights(o) ==
    IF o > Len(sceneObjects) THEN <<>>
    ELSE (IF sceneObjects[o].name = "tv" THEN lightCalls(o, "GL_LIGHT1", 500) ELSE <<>>)
         \o (IF sceneObjects[o].name = "lamp" THEN lightCalls(o, "GL_LIGHT2", 1500) ELSE <<>>)
         \o dynamicLights(o + 1)

\* The transform calls between glPushMatrix and the geometry.
Main_localTransform(o) ==
    << call("glTranslatef", o, <<sceneObjects[o].x, sceneObjects[o].y, sceneObjects[o].z>>),
       call("glRotatef", o, <<sceneObjects[o].rx, 1, 0, 0>>),
       call("glRotatef", o, <<sceneObjects[o].ry, 0, 1, 0>>),
       call("glRotatef", o, <<sceneObjects[o].rz, 0, 0, 1>>),
       call("glScalef", o, <<sceneObjects[o].sx, sceneObjects[o].sy, sceneObjects[o].sz>>) >>

\* The triangle loop of main.cpp: normal, texture coordinate, position.
RECURSIVE Main_emitTriangles(_, _, _)
Main_emitTriangles(m, o, i) ==
    IF i >= Len(m.vertices) \div 3 THEN <<>>
    ELSE (IF m.normals # <<>>
          THEN << call("glNormal3f", o, << at(m.normals, 3 * i), at(m.normals, 3 * i + 1),
                                           at(m.normals, 3 * i + 2) >>) >>
          ELSE <<>>)
         \o (IF m.texcoords # <<>>
             THEN << call("glTexCoord2f", o, << at(m.texcoords, 2 * i),
                                                at(m.texcoords, 2 * i + 1) >>) >>
             ELSE <<>>)
         \o << call("glVertex3f", o, << at(m.vertices, 3 * i), at(m.vertices, 3 * i + 1),
                                        at(m.vertices, 3 * i + 2) >>) >>
         \o Main_emitTriangles(m, o, i + 1)

\* One iteration of the "Draw Objects" loop; the pulse colour of the selected
\* object depends on the clock and is recorded by name.
drawObject(o) ==
    LET m == sceneObjects[o].model
    IN  IF m = NULL \/ ~Main_loadedModels[m].loaded THEN <<>>
        ELSE << call("glPushMatrix", o, <<>>) >>
             \o Main_localTransform(o)
             \o << call("glColor3f", o, IF o = selectedObject THEN <<"pulse">>
                                        ELSE <<1, 1, 1>>) >>
             \o (IF Main_loadedModels[m].textureID # 0
                 THEN << call("glEnable", o, <<"GL_TEXTURE_2D">>),
                         call("glBindTexture", o, <<Main_loadedModels[m].textureID>>) >>
                 ELSE << call("glDisable", o, <<"GL_TEXTURE_2D">>) >>)
             \o << call("glBegin", o, <<"GL_TRIANGLES">>) >>
             \o Main_emitTriangles(Main_loadedModels[m], o, 0)
             \o << call("glEnd", o, <<>>), call("glPopMatrix", o, <<>>) >>

RECURSIVE drawObjects(_)
drawObjects(o) ==
    IF o > Len(sceneObjects) THEN <<>> ELSE drawObject(o) \o drawObjects(o + 1)

Main_display ==
    /\ program = "main" /\ pc = "loop"
    /\ count.draws < lim.draws
    /\ count' = [count EXCEPT !.draws = @ + 1]
    /\ glCalls' =
          << call("glClear", NULL, <<>>),
             call("glLoadIdentity", NULL, <<>>),
             call("gluLookAt", NULL, <<cameraDist, cameraAngle, cameraHeight,
                                       0, 0, 0, 0, 0, 1>>) >>
          \o dynamicLights(1)
          \o << call("glEnable", NULL, <<"GL_LIGHTING">>) >>
          \o drawObjects(1)
          \o << call("glutSwapBuffers", NULL, <<>>) >>
    /\ UNCHANGED <<pc, env, c1vars, mainvars, loadCalls, getLog, edited, tabTrail>>

\* ---------------------------------------------------------- construction
NoEvents == [ticks |-> 0, edits |-> 0, cams |-> 0, draws |-> 0]

InitBuild == InitWith(SceneFiles(Palette, MaxNodes), NoEvents)
NextBuild == LoadScene \/ Main_LoadScene
SpecBuild == InitBuild /\ [][NextBuild]_vars

\* ------------------------------------------------- the cache on its own
\* LoadScene seen call by call: the GetModel calls that parseNode (for a
\* mesh element) and AddObj make while the scene is under construction, for
\* any sequence of identifiers.
GetModelCall(filename) ==
    /\ program = "complex1" /\ pc = "start"
    /\ Len(getLog) < MaxCalls
    /\ LET h == GetModel(filename, [EmptyHeap(disk) EXCEPT !.loadedModels = loadedModels,
                                                          !.loadCalls = loadCalls,
                                                          !.getLog = getLog])
       IN  /\ loadedModels' = h.loadedModels
           /\ loadCalls' = h.loadCalls
           /\ getLog' = h.getLog
    /\ UNCHANGED <<pc, env, nodes, sceneGraph, flatList, selectedNode, selectionIndex,
                   clockRunning, camX, camY, camZ, mainvars, count, edited, tabTrail,
                   glCalls>>

Main_ModelNames == {"big_sofa.obj", "clock.obj", "tv.obj"}

Main_GetModelCall(filename) ==
    /\ program = "main" /\ pc = "start"
    /\ Len(getLog) < MaxCalls
    /\ LET textured == { m \in DOMAIN Main_loadedModels :
                            Main_loadedModels[m].textureID # 0 }
           h == Main_GetModel(filename,
                    [Main_EmptyHeap(disk) EXCEPT !.loadedModels = Main_loadedModels,
                                                 !.textures = Cardinality(textured),
                                                 !.loadCalls = loadCalls,
                                                 !.getLog = getLog])
       IN  /\ Main_loadedModels' = h.loadedModels
           /\ loadCalls' = h.loadCalls
           /\ getLog' = h.getLog
    /\ UNCHANGED <<pc, env, c1vars, sceneObjects, selectedObject, Main_selectionIndex,
                   cameraAngle, cameraHeight, cameraDist, isClockAnimating,
                   isRoomSpinning, count, edited, tabTrail, glCalls>>

InitCache == InitWith({NoSceneFile}, NoEvents)
NextCache ==
    \/ \E filename \in ObjNames : GetModelCall(filename)
    \/ \E filename \in Main_ModelNames : Main_GetModelCall(filename)
SpecCache == InitCache /\ [][NextCache]_vars

\* The cache of the program that runs.
Cache == IF program = "main" THEN Main_loadedModels ELSE loadedModels

\* The cache holds only loaded payloads of files that exist, under pairwise
\* distinct names.
CacheSound(cache) ==
    /\ \A m \in DOMAIN cache : cache[m].loaded /\ cache[m].name \in disk
    /\ \A a, b \in DOMAIN cache : a # b => cache[a].name # cache[b].name

\* C14: a GetModel call whose load fails returns null, invokes the loader
\* (again, if the identifier failed before) and leaves the cache as it was;
\* after any sequence of calls the cache holds only successfully loaded
\* payloads with pairwise distinct names.
C14_NoNegativeCaching ==
    [][ Len(getLog') = Len(getLog) + 1 =>
          LET last == getLog'[Len(getLog')]
          IN  /\ last.filename \notin disk =>
                    /\ last.ret = NULL
                    /\ Cache' = Cache
                    /\ loadCalls' = Append(loadCalls, last.filename)
              /\ CacheSound(Cache') ]_vars

\* C14 witness: an identifier that fails, requested again after another
\* identifier was loaded into the cache: null both times, the loader invoked
\* both times.
C14_Witness ==
    /\ pc = "start" /\ Len(Cache) = 1
    /\ \E i, j \in DOMAIN getLog :
          /\ i < j /\ getLog[i].filename = getLog[j].filename
          /\ getLog[i].filename \notin disk
          /\ getLog[i].ret = NULL /\ getLog[j].ret = NULL
          /\ Cardinality({ k \in DOMAIN loadCalls : loadCalls[k] = getLog[i].filename }) = 2

\* ------------------------------------------------ construction: the claims
\* The elements of a decoded forest, each parent before its children, the
\* children and the roots in declaration order.
RECURSIVE ElementsOf(_)
ElementsOf(items) ==
    IF items = <<>> THEN <<>>
    ELSE << Head(items) >> \o ElementsOf(value(Head(items), "children", <<>>))
         \o ElementsOf(Tail(items))

Declared == ElementsOf(value(sceneFile.data, "root", <<>>))

\* complex1.cpp / main.cpp has run LoadScene to its end.
Built      == program = "complex1" /\ pc = "loop" /\ sceneFile.is_open
Main_Built == program = "main" /\ pc = "loop"

Requests(filename) == { i \in DOMAIN getLog : getLog[i].filename = filename }
Loads(filename)    == { i \in DOMAIN loadCalls : loadCalls[i] = filename }
Requested          == { getLog[i].filename : i \in DOMAIN getLog }

\* C1 as stated: every identifier requested more than once through GetModel,
\* whether its load succeeds or fails, reaches tinyobj::LoadObj exactly once
\* and every request returns the same pointer.
C1_DedupAnyIdentifier ==
    \A f \in Requested :
        Cardinality(Requests(f)) > 1 =>
            /\ Cardinality(Loads(f)) = 1
            /\ \A i, j \in Requests(f) : getLog[i].ret = getLog[j].ret

\* C1 amended: every identifier whose load succeeds and that is requested
\* more than once through GetModel, in any interleaving with requests for
\* other identifiers, reaches tinyobj::LoadObj exactly once, and every
\* request returns the same non-null payload, the one stored under that name.
C1_DedupLoadedIdentifier ==
    \A f \in Requested :
        (f \in disk /\ Cardinality(Requests(f)) > 1) =>
            /\ Cardinality(Loads(f)) = 1
            /\ \A i, j \in Requests(f) : getLog[i].ret = getLog[j].ret
            /\ \A i \in Requests(f) :
                  /\ getLog[i].ret # NULL
                  /\ (IF program = "main" THEN Main_loadedModels
                      ELSE loadedModels)[getLog[i].ret].name = f

\* C1 witness: a loadable identifier requested twice with a request for
\* another identifier in between, loaded once.
C1_Witness ==
    \E i, k, j \in DOMAIN getLog :
        /\ i < k /\ k < j
        /\ getLog[i].filename = getLog[j].filename
        /\ getLog[k].filename # getLog[i].filename
        /\ getLog[i].filename \in disk
        /\ Cardinality(Loads(getLog[i].filename)) = 1

\* The nodes of the graph in pre-order: each node before its children, the
\* children and the roots in declaration order.
RECURSIVE PreOrder(_)
PreOrder(ptrs) ==
    IF ptrs = <<>> THEN <<>>
    ELSE << Head(ptrs) >> \o PreOrder(nodes[Head(ptrs)].children)
         \o PreOrder(Tail(ptrs))

\* C4: the flat list built by LoadScene / parseNode holds every node exactly
\* once, in pre-order depth-first order, root after root.
C4_FlattenPreOrder ==
    Built => flatList = PreOrder(sceneGraph)

\* The element of scene.json that node n was built from.
ElementOf(n) == Declared[n]
AsksForMesh(e) == value(e, "type", "group") = "mesh" /\ contains(e, "model")

\* C8: building a scene in which some mesh identifiers fail to load and
\* others succeed completes with one node per declared element; a node that
\* asks for a mesh has a null mesh reference exactly when its identifier
\* fails, and otherwise points at the loaded payload cached under its
\* identifier.  The same for the Objects of main.cpp.
C8_MeshFailureIsolation ==
    /\ Built =>
          /\ Len(nodes) = Len(Declared)
          /\ \A n \in DOMAIN nodes :
                AsksForMesh(ElementOf(n)) =>
                    LET f == ElementOf(n)["model"]
                        m == nodes[n].modelData
                    IN  /\ (m = NULL) <=> (f \notin disk)
                        /\ m # NULL => /\ m \in DOMAIN loadedModels
                                       /\ loadedModels[m].name = f
                                       /\ loadedModels[m].loaded
    /\ Main_Built =>
          /\ Len(sceneObjects) = Len(Main_SceneData)
          /\ \A n \in DOMAIN sceneObjects :
                LET f == Main_SceneData[n].modelName
                    m == sceneObjects[n].model
                IN  /\ (m = NULL) <=> (f \notin disk)
                    /\ m # NULL => /\ m \in DOMAIN Main_loadedModels
                                   /\ Main_loadedModels[m].name = f
                                   /\ Main_loadedModels[m].loaded

\* C8 witness: a built scene with a node whose identifier failed and a node
\* whose identifier loaded.
C8_Witness ==
    /\ Built
    /\ \E a, b \in DOMAIN nodes :
          /\ AsksForMesh(ElementOf(a)) /\ nodes[a].modelData = NULL
          /\ AsksForMesh(ElementOf(b)) /\ nodes[b].modelData # NULL

\* C9: an element that supplies only `name` builds into a node with
\* pos (0,0,0), rot (0,0,0), scale (1,1,1), not animated, speed 1.0, kind
\* group, no mesh reference and no children; GetModel is called once per
\* element that asks for a mesh, so never for such an element.
C9_BuilderDefaults ==
    Built =>
        /\ \A n \in DOMAIN nodes :
              DOMAIN ElementOf(n) = {"name"} =>
                  nodes[n] = [ name |-> ElementOf(n)["name"], type |-> "group",
                               x |-> 0, y |-> 0, z |-> 0,
                               rx |-> 0, ry |-> 0, rz |-> 0,
                               sx |-> 10, sy |-> 10, sz |-> 10,
                               modelData |-> NULL, children |-> <<>>,
                               isSelected |-> (selectedNode = n),
                               isAnimated |-> FALSE, animSpeed |-> 10 ]
        /\ Len(getLog) = Cardinality({ n \in DOMAIN nodes : AsksForMesh(ElementOf(n)) })

\* C9 witness: a built scene holding a name-only element next to one that
\* asks for a mesh.
C9_Witness ==
    /\ Built
    /\ \E a, b \in DOMAIN nodes :
          /\ DOMAIN ElementOf(a) = {"name"}
          /\ AsksForMesh(ElementOf(b))

\* C17: parseNode asks GetModel for a mesh exactly for the elements of type
\* "mesh" that have a model identifier, in the order it meets them; any
\* other element (a group carrying a model key, a mesh element without one)
\* ends with a null mesh reference, and neither the loader nor the cache
\* ever sees an identifier that no such element names.
C17_MeshOnlyForMeshKind ==
    Built =>
        LET asks == SelectSeq(Declared, AsksForMesh)
            asked == { asks[i]["model"] : i \in DOMAIN asks }
        IN  /\ [i \in DOMAIN getLog |-> getLog[i].filename]
                  = [i \in DOMAIN asks |-> asks[i]["model"]]
            /\ \A n \in DOMAIN nodes :
                  ~AsksForMesh(ElementOf(n)) => nodes[n].modelData = NULL
            /\ \A i \in DOMAIN loadCalls : loadCalls[i] \in asked
            /\ \A m \in DOMAIN loadedModels : loadedModels[m].name \in asked

\* C17 witness: a scene of a group that carries a model key for a file that
\* exists and of a mesh element without a model key, built without any
\* loader invocation.
C17_Witness ==
    /\ Built /\ Len(nodes) = 2
    /\ loadCalls = <<>> /\ loadedModels = <<>>
    /\ \E a, b \in DOMAIN nodes :
          /\ nodes[a].type = "group" /\ contains(ElementOf(a), "model")
          /\ ElementOf(a)["model"] \in disk
          /\ nodes[b].type = "mesh" /\ ~contains(ElementOf(b), "model")

\* ------------------------------------------- malformed fields: the claims
\* Construction from scenes that hold elements with malformed triples.
InitDecode == InitWith(SceneFiles(MalformedPalette, MaxNodes), NoEvents)
SpecDecode == InitDecode /\ [][NextBuild]_vars

Malformed(e, key) == contains(e, key) /\ firstThrow(e[key]) < 3

\* C11: when an element's pos, rot or scale is present but malformed (fewer
\* than three elements, or an element that is not a number), the build
\* completes with a node for every declared element, and the node carries
\* the default for that field: pos (0,0,0), rot (0,0,0), scale (1,1,1).
C11_MalformedFieldDefaults ==
    (program = "complex1" /\ pc # "start" /\ sceneFile.is_open /\ sceneFile.parses) =>
        /\ pc = "loop"
        /\ Len(nodes) = Len(Declared)
        /\ \A n \in DOMAIN nodes :
              /\ Malformed(ElementOf(n), "pos") =>
                    <<nodes[n].x, nodes[n].y, nodes[n].z>> = <<0, 0, 0>>
              /\ Malformed(ElementOf(n), "rot") =>
                    <<nodes[n].rx, nodes[n].ry, nodes[n].rz>> = <<0, 0, 0>>
              /\ Malformed(ElementOf(n), "scale") =>
                    <<nodes[n].sx, nodes[n].sy, nodes[n].sz>> = <<10, 10, 10>>

\* C12: when scene.json cannot be opened or decoded, or has no "root"
\* container, LoadScene fails the construction and the program never enters
\* the event loop.
C12_ConstructionFailureAborts ==
    (/\ program = "complex1"
     /\ \/ ~sceneFile.is_open
        \/ ~sceneFile.parses
        \/ ~contains(sceneFile.data, "root"))
    => pc \in {"start", "aborted"}

\* --------------------------------------------------- selection: the claims
Selected == { n \in DOMAIN nodes : nodes[n].isSelected }

\* C2: in complex1.cpp, after LoadScene and any sequence of TAB events,
\* exactly one node has isSelected set when flatList is non-empty (none when
\* it is empty), and that node is flatList[selectionIndex] = selectedNode
\* with 0 <= selectionIndex < length; in main.cpp selectedObject is
\* sceneObjects[selectionIndex].
C2_SelectionExclusive ==
    /\ (program = "complex1" /\ pc # "start") =>
          IF flatList # <<>>
          THEN /\ selectionIndex \in 0..(Len(flatList) - 1)
               /\ selectedNode = flatList[selectionIndex + 1]
               /\ Selected = {selectedNode}
          ELSE Selected = {}
    /\ Main_Built =>
          /\ Main_selectionIndex \in 0..(Len(sceneObjects) - 1)
          /\ selectedObject = Main_selectionIndex + 1

\* C2 witness: three nodes, and TAB pressed often enough to wrap around.
C2_Witness ==
    /\ program = "complex1" /\ Len(flatList) = 3
    /\ Len(tabTrail) = 4 /\ selectionIndex = 0

\* C3: on an empty flattened list a TAB event changes nothing: not the
\* cursor, not the selected reference, nor anything else, and the program
\* goes on running.
C3_EmptyListTabIsNoop ==
    [][ (\/ flatList = <<>> /\ keyboard("TAB")
         \/ sceneObjects = <<>> /\ Main_keyboard("TAB"))
        => UNCHANGED <<pc, c1vars, mainvars>> ]_vars

\* C5: for a non-empty flattened list of length L and any starting cursor,
\* L consecutive TAB events bring the cursor and the selected node back to
\* where they started, and the L selections made on the way are the L nodes
\* of the list, each once.  tabTrail holds the starting cursor and the L
\* that followed.
TrailLength == IF program = "main" THEN Len(sceneObjects) ELSE Len(flatList)
TrailNodes ==
    IF program = "main" THEN DOMAIN sceneObjects
    ELSE { flatList[i] : i \in DOMAIN flatList }

C5_SelectionWraps ==
    (TrailLength > 0 /\ Len(tabTrail) = TrailLength + 1) =>
        /\ tabTrail[1] = tabTrail[TrailLength + 1]
        /\ { tabTrail[i].node : i \in 2..(TrailLength + 1) } = TrailNodes
        /\ Cardinality(TrailNodes) = TrailLength

\* C5 witness: L TABs from a cursor in the middle of a three-node list.
C5_Witness ==
    /\ program = "complex1" /\ Len(flatList) = 3
    /\ Len(tabTrail) = 4 /\ tabTrail[1].index = 1

\* --------------------------------------------------- animation: the claims
\* The nodes and objects as LoadScene built them.
BuiltNodes   == BuildScene(sceneFile, disk).nodes
BuiltObjects == Main_BuildScene(disk).sceneObjects

\* What complex1.cpp's idle does to a node nobody edited, after count.ticks
\* calls with the clock running: rz of an animated node has grown by
\* ticks * animSpeed, nothing else has changed.
C6_Complex1 ==
    Built =>
        LET built == BuiltNodes IN
        \A n \in DOMAIN nodes \ edited :
            /\ nodes[n].rx = built[n].rx
            /\ nodes[n].ry = built[n].ry
            /\ nodes[n].rz = built[n].rz
                  + (IF nodes[n].isAnimated THEN count.ticks * nodes[n].animSpeed ELSE 0)

\* C6 as stated: in both programs the designated axis of an animated node
\* ticked n times while unpaused has changed by exactly +n*s (rz in
\* complex1.cpp, rx in main.cpp), the other two axes by 0, and a node not
\* flagged animated is unchanged.
C6_AccumulatesPlus ==
    /\ C6_Complex1
    /\ Main_Built =>
          LET built == BuiltObjects IN
          \A o \in DOMAIN sceneObjects \ edited :
              /\ sceneObjects[o].ry = built[o].ry
              /\ sceneObjects[o].rz = built[o].rz
              /\ sceneObjects[o].rx = built[o].rx
                    + (IF sceneObjects[o].spinAnimation
                       THEN count.ticks * sceneObjects[o].spinSpeed ELSE 0)

\* C6 amended: in complex1.cpp rz of an animated node ticked n times while
\* unpaused has changed by exactly +n*s; in main.cpp rx of a spinning object
\* has changed by exactly -n*s; the other two axes by 0, and a node or
\* object not flagged animated is unchanged.
C6_AccumulatesSigned ==
    /\ C6_Complex1
    /\ Main_Built =>
          LET built == BuiltObjects IN
          \A o \in DOMAIN sceneObjects \ edited :
              /\ sceneObjects[o].ry = built[o].ry
              /\ sceneObjects[o].rz = built[o].rz
              /\ sceneObjects[o].rx = built[o].rx
                    - (IF sceneObjects[o].spinAnimation
                       THEN count.ticks * sceneObjects[o].spinSpeed ELSE 0)

\* C6 witness: a node of speed 2.0 ticked five times, 10.0 degrees further.
C6_Witness ==
    /\ Built /\ count.ticks = 5
    /\ LET built == BuiltNodes IN
       \E n \in DOMAIN nodes :
          /\ nodes[n].isAnimated /\ nodes[n].animSpeed = 20
          /\ nodes[n].rz = built[n].rz + 100

\* The rotation fields of every node and object.
Rotations ==
    << [n \in DOMAIN nodes |-> <<nodes[n].rx, nodes[n].ry, nodes[n].rz>>],
       [o \in DOMAIN sceneObjects |->
           <<sceneObjects[o].rx, sceneObjects[o].ry, sceneObjects[o].rz>>] >>

\* C7: while the animation flag is off (clockRunning / isClockAnimating),
\* an idle() tick leaves rx, ry and rz of every node unchanged.
C7_PausedIdleKeepsRotations ==
    [][ (\/ idle /\ ~clockRunning
         \/ Main_idle /\ ~isClockAnimating)
        => UNCHANGED Rotations ]_vars

\* C7 witness: idle() has run with the clock of complex1.cpp paused, after
\* it had turned an animated node.
C7_Witness ==
    /\ Built /\ ~clockRunning /\ count.pausedIdle /\ count.ticks > 0
    /\ \E n \in DOMAIN nodes : nodes[n].isAnimated /\ nodes[n].animSpeed # 0

\* ----------------------------------------------------- drawing: the claims
\* What a call does to the matrix: T, Rx, Ry, Rz, S, or "other".
Kind(c) ==
    IF c.op = "glTranslatef" THEN "T"
    ELSE IF c.op = "glScalef" THEN "S"
    ELSE IF c.op = "glRotatef"
    THEN (IF <<c.args[2], c.args[3], c.args[4]>> = <<1, 0, 0>> THEN "Rx"
          ELSE IF <<c.args[2], c.args[3], c.args[4]>> = <<0, 1, 0>> THEN "Ry"
          ELSE IF <<c.args[2], c.args[3], c.args[4]>> = <<0, 0, 1>> THEN "Rz"
          ELSE "other")
    ELSE "other"

Pushes == { i \in DOMAIN glCalls : glCalls[i].op = "glPushMatrix" }

\* The five calls after the glPushMatrix at position i are the transform of
\* the node pushed, in the order given, and nothing is issued for that node
\* before its glPushMatrix.
TransformOrderAt(i, order) ==
    /\ i + 5 <= Len(glCalls)
    /\ \A k \in 1..5 : /\ Kind(glCalls[i + k]) = order[k]
                       /\ glCalls[i + k].node = glCalls[i].node
    /\ \A j \in DOMAIN glCalls : glCalls[j].node = glCalls[i].node => j >= i

\* The geometry of the node pushed at position i starts after its transform.
GeometryAfterTransform(i) ==
    \A j \in DOMAIN glCalls :
        (glCalls[j].node = glCalls[i].node /\ glCalls[j].op \in {"glBegin", "glVertex3f"})
            => j > i + 5

\* C10 as stated: every node drawn by either program gets its transform in
\* the call order translate, rotate-Z, rotate-Y, rotate-X, scale, between
\* its glPushMatrix and its geometry.
C10_OrderZYXEverywhere ==
    \A i \in Pushes :
        TransformOrderAt(i, <<"T", "Rz", "Ry", "Rx", "S">>) /\ GeometryAfterTransform(i)

\* C10 amended: between a node's glPushMatrix and its geometry,
\* complex1.cpp issues translate, rotate-Z, rotate-Y, rotate-X, scale
\* (T*Rz*Ry*Rx*S) and main.cpp issues translate, rotate-X, rotate-Y,
\* rotate-Z, scale (T*Rx*Ry*Rz*S).
C10_OrderPerProgram ==
    \A i \in Pushes :
        /\ TransformOrderAt(i, IF program = "main"
                               THEN <<"T", "Rx", "Ry", "Rz", "S">>
                               ELSE <<"T", "Rz", "Ry", "Rx", "S">>)
        /\ GeometryAfterTransform(i)

\* C10 witness: complex1.cpp has drawn a rotated mesh node below a parent.
C10_Witness ==
    /\ program = "complex1"
    /\ \E i, j \in Pushes :
          /\ i < j /\ glCalls[j].node \in DOMAIN nodes
          /\ nodes[glCalls[j].node].rz = 50
          /\ glCalls[j + 6].op = "glColor3f"
          /\ \E k \in 1..Len(nodes[glCalls[i].node].children) :
                nodes[glCalls[i].node].children[k] = glCalls[j].node

\* C13: every payload in the cache has a normals array that is empty or as
\* long as the positions array, and (main.cpp) a texcoords array that is
\* empty or holds two values per position triple; so no glNormal3f or
\* glTexCoord2f of the draw loops carries a value read past the end.
NormalsFit(m)   == m.normals = <<>> \/ Len(m.normals) = Len(m.vertices)
TexcoordsFit(m) == m.texcoords = <<>> \/ Len(m.texcoords) = 2 * (Len(m.vertices) \div 3)

C13_PayloadShape ==
    /\ \A m \in DOMAIN loadedModels : NormalsFit(loadedModels[m])
    /\ \A m \in DOMAIN Main_loadedModels :
          NormalsFit(Main_loadedModels[m]) /\ TexcoordsFit(Main_loadedModels[m])
    /\ \A i \in DOMAIN glCalls :
          glCalls[i].op \in {"glNormal3f", "glTexCoord2f"} =>
              \A k \in DOMAIN glCalls[i].args : glCalls[i].args[k] # WILD

\* ---------------------------------------------------- traversal: the claims
\* Scene construction and display, on scenes of meshes and groups.
InitTraverse ==
    InitWith(SceneFiles({MeshA, MeshB, GroupModel}, MaxNodes),
             [ticks |-> 0, edits |-> 0, cams |-> 0, draws |-> MaxDraws])
NextTraverse ==
    \/ LoadScene
    \/ display
    \/ Main_LoadScene
    \/ Main_display
SpecTraverse == InitTraverse /\ [][NextTraverse]_vars

\* The OpenGL matrix stack replayed over calls[i..]: a matrix is the
\* sequence of the transform calls multiplied into it since glLoadIdentity,
\* stack is the stack with the current matrix last, emitted lists every
\* glBegin(GL_TRIANGLES) with the current matrix at that point, underflow
\* says that a glPopMatrix found nothing to pop.
RECURSIVE Replay(_, _, _)
Replay(calls, i, r) ==
    IF i > Len(calls) THEN r
    ELSE LET c   == calls[i]
             top == r.stack[Len(r.stack)]
             set(m) == [r EXCEPT !.stack[Len(r.stack)] = m]
         IN  Replay(calls, i + 1,
                CASE c.op = "glLoadIdentity" -> set(<<>>)
                  [] c.op \in {"gluLookAt", "glTranslatef", "glRotatef", "glScalef"} ->
                        set(Append(top, c))
                  [] c.op = "glPushMatrix" -> [r EXCEPT !.stack = Append(@, top)]
                  [] c.op = "glPopMatrix" ->
                        IF Len(r.stack) = 1 THEN [r EXCEPT !.underflow = TRUE]
                        ELSE [r EXCEPT !.stack = SubSeq(@, 1, Len(@) - 1)]
                  [] c.op = "glBegin" /\ c.args = <<"GL_TRIANGLES">> ->
                        [r EXCEPT !.emitted = Append(@, [node |-> c.node, matrix |-> top])]
                  [] OTHER -> r)

\* The calls that read or change the matrix stack.
MatrixCalls ==
    SelectSeq(glCalls,
              LAMBDA c : \/ c.op \in {"glLoadIdentity", "gluLookAt", "glTranslatef",
                                      "glRotatef", "glScalef", "glPushMatrix",
                                      "glPopMatrix"}
                         \/ c.op = "glBegin" /\ c.args = <<"GL_TRIANGLES">>)

Replayed ==
    Replay(MatrixCalls, 1, [stack |-> << <<>> >>, emitted |-> <<>>, underflow |-> FALSE])

\* The parent of node n (NULL for a root), and the nodes from its root down
\* to n.
Parent(n) ==
    IF \E p \in DOMAIN nodes : \E k \in DOMAIN nodes[p].children : nodes[p].children[k] = n
    THEN CHOOSE p \in DOMAIN nodes :
             \E k \in DOMAIN nodes[p].children : nodes[p].children[k] = n
    ELSE NULL

RECURSIVE Path(_)
Path(n) == IF Parent(n) = NULL THEN <<n>> ELSE Append(Path(Parent(n)), n)

\* The node each call of a matrix was issued for, and the same for a matrix
\* made of the camera (issued for NULL) and the five transform calls of each
\* node of a path.
IssuedFor(matrix) == [k \in DOMAIN matrix |-> matrix[k].node]
FiveEach(path) == [k \in 1..(5 * Len(path)) |-> path[(k + 4) \div 5]]

\* C15: in complex1.cpp's display the matrix stack is balanced (no pop
\* without a push, the depth after display is the depth before), and the
\* matrix in effect where a node's geometry is emitted is, on top of the
\* camera, made of the local transforms of its ancestors from the root down
\* to its parent and then its own, and of no other node's.
C15_SiblingIsolation ==
    (program = "complex1" /\ glCalls # <<>>) =>
        LET r == Replayed
        IN  /\ ~r.underflow
            /\ Len(r.stack) = 1
            /\ \A e \in DOMAIN r.emitted :
                  IssuedFor(r.emitted[e].matrix)
                      = <<NULL>> \o FiveEach(Path(r.emitted[e].node))

\* C15 witness: a parent with two children, all three with a loaded mesh,
\* has been drawn.
C15_Witness ==
    /\ program = "complex1" /\ glCalls # <<>>
    /\ \E p \in DOMAIN nodes :
          /\ Len(nodes[p].children) = 2
          /\ \A n \in {p, nodes[p].children[1], nodes[p].children[2]} :
                /\ nodes[n].modelData # NULL
                /\ \E i \in DOMAIN glCalls :
                      glCalls[i].op = "glBegin" /\ glCalls[i].node = n

\* The calls of the last display issued for node or object n.
CallsFor(n) == SelectSeq(glCalls, LAMBDA c : c.node = n)
Ops(calls) == [k \in DOMAIN calls |-> calls[k].op]

\* C16: in display a node without a mesh (failed load, or a group) gets its
\* matrix pushed, transformed and popped in complex1.cpp, and nothing at all
\* in main.cpp, but no geometry, and display returns; every node with a mesh,
\* the children of a node without one included, is drawn with its transform
\* and one glVertex3f per position of its payload.
C16_AbsentMeshIsNoop ==
    /\ (program = "complex1" /\ glCalls # <<>>) =>
          /\ pc = "loop"
          /\ \A n \in DOMAIN nodes :
                LET ops == Ops(CallsFor(n))
                    m   == nodes[n].modelData
                IN  /\ Len(ops) >= 7
                    /\ SubSeq(ops, 1, 6) = << "glPushMatrix", "glTranslatef", "glRotatef",
                                               "glRotatef", "glRotatef", "glScalef" >>
                    /\ ops[Len(ops)] = "glPopMatrix"
                    /\ m = NULL => Len(ops) = 7
                    /\ m # NULL =>
                          /\ Len(ops) >= 9
                          /\ SubSeq(ops, 7, 8) = << "glColor3f", "glBegin" >>
                          /\ Len(SelectSeq(ops, LAMBDA o : o = "glVertex3f"))
                                = Len(loadedModels[m].vertices) \div 3
    /\ (program = "main" /\ glCalls # <<>>) =>
          /\ pc = "loop"
          /\ \A n \in DOMAIN sceneObjects :
                LET ops == Ops(CallsFor(n))
                    m   == sceneObjects[n].model
                IN  /\ m = NULL => ops = <<>>
                    /\ m # NULL =>
                          /\ Len(ops) >= 7
                          /\ SubSeq(ops, 1, 6) = << "glPushMatrix", "glTranslatef",
                                                    "glRotatef", "glRotatef", "glRotatef",
                                                    "glScalef" >>
                          /\ Len(SelectSeq(ops, LAMBDA o : o = "glVertex3f"))
                                = Len(Main_loadedModels[m].vertices) \div 3

\* C16 witness: a node whose load failed has been drawn above a child whose
\* mesh was drawn.
C16_Witness ==
    /\ program = "complex1" /\ glCalls # <<>>
    /\ \E p \in DOMAIN nodes :
          /\ nodes[p].type = "mesh" /\ nodes[p].modelData = NULL
          /\ Len(nodes[p].children) > 0
          /\ nodes[nodes[p].children[1]].modelData # NULL
          /\ \E i \in DOMAIN glCalls :
                glCalls[i].op = "glVertex3f" /\ glCalls[i].node = nodes[p].children[1]

\* ============================================================ the programs
\* Selection: scene construction and the keyboard, no transform edits.
InitSelect == InitWith(SceneFiles({NameOnly, MeshA}, MaxNodes), NoEvents)
NextSelect ==
    \/ LoadScene
    \/ \E key \in Keys : keyboard(key)
    \/ Main_LoadScene
    \/ \E key \in Main_Keys : Main_keyboard(key)
SpecSelect == InitSelect /\ [][NextSelect]_vars

\* ------------------------------------------------------ edits: the claims
\* Editing: scene construction, the keyboard and the special keys; main.cpp
\* with all its files present.
InitEdit ==
    /\ InitWith(SceneFiles(LoopPalette, MaxLoopNodes),
                [ticks |-> 0, edits |-> MaxEdits, cams |-> MaxCams, draws |-> 0])
    /\ program = "main" => disk = Main_Files
NextEdit ==
    \/ LoadScene
    \/ \E key \in Keys : keyboard(key)
    \/ \E key \in SpecialKeys : specialKeys(key)
    \/ Main_LoadScene
    \/ \E key \in Main_Keys : Main_keyboard(key)
    \/ \E key \in Main_SpecialKeys : Main_specialKeys(key)
SpecEdit == InitEdit /\ [][NextEdit]_vars

\* What each transform key does: the field, and the step in the unit of the
\* field (complex1.cpp: 0.1 and 2.0 in tenths; main.cpp: 0.2 in thousandths,
\* 5.0 in degrees, 0.05 in hundredths).
TransformKeys ==
    [ q |-> <<{"x"}, 1>>,    a |-> <<{"x"}, -1>>,   w |-> <<{"y"}, 1>>,
      s |-> <<{"y"}, -1>>,   e |-> <<{"z"}, 1>>,    d |-> <<{"z"}, -1>>,
      r |-> <<{"rx"}, 20>>,  f |-> <<{"rx"}, -20>>, t |-> <<{"ry"}, 20>>,
      g |-> <<{"ry"}, -20>>, y |-> <<{"rz"}, 20>>,  h |-> <<{"rz"}, -20>> ]
Main_TransformKeys ==
    [ w |-> <<{"y"}, 200>>,  s |-> <<{"y"}, -200>>, a |-> <<{"x"}, -200>>,
      d |-> <<{"x"}, 200>>,  q |-> <<{"z"}, 200>>,  e |-> <<{"z"}, -200>>,
      r |-> <<{"rx"}, 5>>,   f |-> <<{"rx"}, -5>>,  t |-> <<{"ry"}, 5>>,
      g |-> <<{"ry"}, -5>>,  y |-> <<{"rz"}, 5>>,   h |-> <<{"rz"}, -5>>,
      u |-> <<{"sx", "sy", "sz"}, 5>>, j |-> <<{"sx", "sy", "sz"}, -5>> ]

\* Record new is record old with the fields given moved by delta and every
\* other field as it was.
Moved(old, new, fields, delta) ==
    /\ DOMAIN new = DOMAIN old
    /\ \A f \in DOMAIN old :
          new[f] = IF f \in fields THEN old[f] + delta ELSE old[f]

\* C18: a transform key changes only its field(s) of the selected node, by
\* its fixed step, and leaves every other node, the flags of every node, the
\* selection, the cursor, the pause flags, the mesh cache and the camera as
\* they were; a camera key changes nothing but the camera.
C18_EditFrame ==
    [][ /\ \A key \in DOMAIN TransformKeys :
              keyboard(key) =>
                  /\ UNCHANGED <<sceneGraph, flatList, loadedModels, selectedNode,
                                 selectionIndex, clockRunning, camX, camY, camZ>>
                  /\ DOMAIN nodes' = DOMAIN nodes
                  /\ \A n \in DOMAIN nodes :
                        IF n = selectedNode
                        THEN Moved(nodes[n], nodes'[n], TransformKeys[key][1],
                                   TransformKeys[key][2])
                        ELSE nodes'[n] = nodes[n]
        /\ \A key \in DOMAIN Main_TransformKeys :
              Main_keyboard(key) =>
                  /\ UNCHANGED <<Main_loadedModels, selectedObject, Main_selectionIndex,
                                 cameraAngle, cameraHeight, cameraDist, isClockAnimating,
                                 isRoomSpinning>>
                  /\ DOMAIN sceneObjects' = DOMAIN sceneObjects
                  /\ \A o \in DOMAIN sceneObjects :
                        IF o = selectedObject
                        THEN Moved(sceneObjects[o], sceneObjects'[o],
                                   Main_TransformKeys[key][1], Main_TransformKeys[key][2])
                        ELSE sceneObjects'[o] = sceneObjects[o]
        /\ (\E key \in SpecialKeys : specialKeys(key)) =>
              UNCHANGED <<nodes, sceneGraph, flatList, loadedModels, selectedNode,
                          selectionIndex, clockRunning>>
        /\ (\E key \in Main_SpecialKeys : Main_specialKeys(key)) =>
              UNCHANGED <<sceneObjects, Main_loadedModels, selectedObject,
                          Main_selectionIndex, isClockAnimating, isRoomSpinning>>
      ]_vars

\* C18 witness: in complex1.cpp the second node of the flat list is
\* selected and has been moved by a transform key, the first has not, and a
\* camera key has moved the camera.
C18_Witness ==
    /\ program = "complex1" /\ pc = "loop" /\ Len(flatList) = 2
    /\ selectedNode = flatList[2] /\ edited = {selectedNode}
    /\ nodes[selectedNode].animSpeed = BuildScene(sceneFile, disk).nodes[selectedNode].animSpeed
    /\ count.cams = 1 /\ <<camX, camY, camZ>> # <<0, -50, 20>>

\* ------------------------------------------- the whole loop: the claims
\* complex1.cpp with every callback enabled.
InitLoop ==
    /\ InitWith(SceneFiles({MeshA, Spinner}, MaxLoopNodes),
                [ticks |-> MaxLoopTicks, edits |-> MaxEdits, cams |-> MaxCams,
                 draws |-> MaxDraws])
    /\ program = "complex1" /\ disk = ObjNames
NextLoop ==
    \/ LoadScene
    \/ \E key \in Keys : keyboard(key)
    \/ \E key \in SpecialKeys : specialKeys(key)
    \/ idle
    \/ display
SpecLoop == InitLoop /\ [][NextLoop]_vars

\* The isSelected flag of every node.
Flags == [n \in DOMAIN nodes |-> nodes[n].isSelected]

\* C19: in complex1.cpp, after a non-empty scene is loaded and under any
\* interleaving of TAB, transform, speed, pause, camera, idle and display
\* events, the nodes flagged isSelected are exactly {selectedNode},
\* selectedNode is flatList[selectionIndex], and only a TAB event changes
\* the cursor, the selected pointer or any isSelected flag.
C19_SelectionSurvives ==
    [][ /\ (program = "complex1" /\ pc' \in {"loop", "exited"} /\ flatList' # <<>>) =>
              /\ selectionIndex' \in 0..(Len(flatList') - 1)
              /\ selectedNode' = flatList'[selectionIndex' + 1]
              /\ { n \in DOMAIN nodes' : nodes'[n].isSelected } = {selectedNode'}
        /\ (program = "complex1" /\ pc = "loop" /\ flatList # <<>> /\ ~keyboard("TAB")) =>
              UNCHANGED <<selectionIndex, selectedNode, Flags>>
      ]_vars

\* C19 witness: two nodes, the second selected by TAB, and since the scene
\* was loaded an edit, a camera key, an idle tick, a pause with an idle call
\* and a display have all happened.
C19_Witness ==
    /\ program = "complex1" /\ pc = "loop" /\ Len(flatList) = 2
    /\ selectionIndex = 1 /\ selectedNode = flatList[2]
    /\ count.edits = 1 /\ count.cams = 1 /\ count.ticks = 1 /\ count.draws = 1
    /\ count.pausedIdle /\ ~clockRunning

\* Animation: scene construction, the keyboard and idle ticks.
InitAnim ==
    InitWith(SceneFiles(LoopPalette, MaxLoopNodes),
             [ticks |-> MaxTicks, edits |-> 0, cams |-> MaxCams, draws |-> 0])
NextAnim ==
    \/ LoadScene
    \/ \E key \in Keys : keyboard(key)
    \/ idle
    \/ Main_LoadScene
    \/ \E key \in Main_Keys : Main_keyboard(key)
    \/ Main_idle
SpecAnim == InitAnim /\ [][NextAnim]_vars

\* Drawing: scene construction, the keyboard and display.
InitDraw ==
    InitWith(SceneFiles(LoopPalette, MaxLoopNodes),
             [ticks |-> 0, edits |-> 0, cams |-> 0, draws |-> MaxDraws])
NextDraw ==
    \/ LoadScene
    \/ \E key \in Keys : keyboard(key)
    \/ display
    \/ Main_LoadScene
    \/ \E key \in Main_Keys : Main_keyboard(key)
    \/ Main_display
SpecDraw == InitDraw /\ [][NextDraw]_vars

\* Every callback of both programs.
Next ==
    \/ LoadScene
    \/ \E key \in Keys : keyboard(key)
    \/ \E key \in SpecialKeys : specialKeys(key)
    \/ idle
    \/ display
    \/ Main_LoadScene
    \/ \E key \in Main_Keys : Main_keyboard(key)
    \/ \E key \in Main_SpecialKeys : Main_specialKeys(key)
    \/ Main_idle
    \/ Main_display
=============================================================================
